---- MODULE Spec2Model ----
(***************************************************************************)
(* Model of lichess_annual_stats.py: main() calling fetch_game_stats(),    *)
(* which streams NDJSON game lines, aggregates them one line at a time and *)
(* finishes with a sort-and-walk pass over two buffers.                    *)
(*                                                                         *)
(* A line of the response is modelled by the fields the code reads from    *)
(* it.  Strings stand for JSON strings; Absent marks a missing key and     *)
(* Null a JSON null.  Integer fields use NoInt for "missing or not an      *)
(* int".  Timestamps are positive milliseconds (the request asks for       *)
(* games of one year, src line 36-39), kept inside TLC's 32 bit integers.  *)
(***************************************************************************)
EXTENDS Integers, Sequences, FiniteSets, TLC

VARIABLES
    pc,          \* position of main/fetch_game_stats
    stream,      \* the lines the response has delivered so far, in delivery order
    stats,       \* the stats dict of fetch_game_stats
    timeline,    \* list of (ts or 0, outcome)
    timestamps,  \* list of int timestamps
    failed,      \* which urllib error the fetch met: "none", "http", "url"
    stdout,      \* number of statistics reports main printed
    stderr,      \* lines main (or the interpreter) wrote to stderr
    rc           \* exit status of main; NoInt while running

vars == <<pc, stream, stats, timeline, timestamps, failed, stdout, stderr, rc>>

\* ------------------------------------------------------------------ values

Absent == "<absent>"
Null == "<null>"
NoInt == -1

username == "Alice"

\* str.lower() on the identifiers that occur in the modelled lines.
Lower(s) ==
    CASE s = "Alice" -> "alice"
      [] s = "ALICE" -> "alice"
      [] s = "Bob" -> "bob"
      [] OTHER -> s

\* Python's `a or b` on optional ints: None and 0 are falsy.
PyOr(a, b) == IF a # NoInt /\ a # 0 THEN a ELSE b

\* dict.get(key, default) for a string field: a missing key gives the default,
\* a JSON null is returned as it is.
GetOr(v, default) == IF v = Absent THEN default ELSE v

Max(a, b) == IF a >= b THEN a ELSE b

\* ------------------------------------------------------------------ lines

Player(shape, user, uid, name, rating) ==
    [shape |-> shape, user |-> user, uid |-> uid, name |-> name, rating |-> rating]

NoPlayer == Player(Absent, Absent, Absent, Absent, NoInt)
NullPlayer == Player(Null, Absent, Absent, Absent, NoInt)

Line(json, createdAt, lastMoveAt, speed, players, white, black, status, winner, id) ==
    [json |-> json, createdAt |-> createdAt, lastMoveAt |-> lastMoveAt,
     speed |-> speed, players |-> players, white |-> white, black |-> black,
     status |-> status, winner |-> winner, id |-> id]

BlankLine == Line("blank", NoInt, NoInt, Absent, Absent, NoPlayer, NoPlayer, Absent, Absent, Absent)
BadJson == Line("bad", NoInt, NoInt, Absent, Absent, NoPlayer, NoPlayer, Absent, Absent, Absent)
NonObject == Line("nonobj", NoInt, NoInt, Absent, Absent, NoPlayer, NoPlayer, Absent, Absent, Absent)

\* A well formed game object: both players are objects with a user object.
Game(createdAt, lastMoveAt, speed, wid, wrating, bid, brating, status, winner, id) ==
    Line("obj", createdAt, lastMoveAt, speed, "dict",
         Player("dict", "dict", wid, wid, wrating),
         Player("dict", "dict", bid, bid, brating),
         status, winner, id)

\* ------------------------------------------------------------------ stats

Speeds == {"bullet", "blitz", "rapid", "classical"}
Outcomes == {"win", "loss", "draw"}
Endings == {"mate", "resign", "stalemate", "timeout", "outoftime", "aborted", "draw", "other"}
DrawStatuses == {"draw", "stalemate", "repetition", "50move",
                 "timevsinsufficientmaterial", "insufficientmaterial", "agreed"}
TopK == 3

InitStats ==
    [total |-> 0,
     speed_counts |-> [s \in Speeds |-> 0],
     other_speeds |-> 0,
     results |-> [o \in Outcomes |-> 0],
     color_results |-> [c \in {"white", "black"} |-> [o \in Outcomes |-> 0]],
     endings |-> [e \in Endings |-> 0],
     timeout_wins |-> 0,
     timeout_losses |-> 0,
     opponent_rating_sum |-> 0,
     opponent_rating_count |-> 0,
     opponent_by_speed |-> [s \in Speeds |-> [sum |-> 0, count |-> 0]],
     opponent_hist |-> <<>>,
     top_wins |-> <<>>,
     month_counts |-> [i \in 0..11 |-> 0],
     wday_counts |-> [i \in 0..6 |-> 0],
     hour_counts |-> [i \in 0..23 |-> 0],
     longest_win_streak |-> 0,
     longest_loss_streak |-> 0,
     longest_gap_ms |-> 0]

\* ------------------------------------------------------------------ one line

\* ts = game.get("createdAt") or game.get("lastMoveAt")
TsOf(line) == PyOr(line.createdAt, line.lastMoveAt)

IsInt(v) == v # NoInt

\* dt.datetime.fromtimestamp(ts / 1000, utc).month - 1: the civil month of
\* the day number since 1970-01-01.
MonthIndex(ts) ==
    LET z == (ts \div 86400000) + 719468
        era == z \div 146097
        doe == z - era * 146097
        yoe == (doe - (doe \div 1460) + (doe \div 36524) - (doe \div 146096)) \div 365
        doy == doe - (365 * yoe + (yoe \div 4) - (yoe \div 100))
        mp == (5 * doy + 2) \div 153
        m == IF mp < 10 THEN mp + 3 ELSE mp - 9
    IN m - 1

\* datetime.weekday(): Monday is 0; 1970-01-01 was a Thursday.
Weekday(ts) == ((ts \div 86400000) + 3) % 7

Hour(ts) == (ts \div 3600000) % 24

CountTimestamp(st, ts) ==
    IF IsInt(ts)
    THEN [st EXCEPT !.month_counts[MonthIndex(ts)] = @ + 1,
                    !.wday_counts[Weekday(ts)] = @ + 1,
                    !.hour_counts[Hour(ts)] = @ + 1]
    ELSE st

CountSpeed(st, speed) ==
    IF speed \in Speeds
    THEN [st EXCEPT !.speed_counts[speed] = @ + 1]
    ELSE [st EXCEPT !.other_speeds = @ + 1]

\* players = game.get("players", {}); white = players.get("white", {})
PlayerOf(line, color) ==
    IF line.players = "dict" THEN line[color] ELSE NoPlayer

\* (p.get("user") or {}).get("id", "").lower() raises AttributeError when p is
\* None, when user is a non-dict truthy value, or when id is None.
PlayerIdRaises(p) ==
    \/ p.shape = Null
    \/ p.shape = "dict" /\ p.user = "str"
    \/ p.shape = "dict" /\ p.user = "dict" /\ p.uid = Null

PlayerId(p) ==
    IF p.shape = "dict" /\ p.user = "dict" THEN Lower(GetOr(p.uid, "")) ELSE ""

UserColor(line) ==
    IF PlayerId(PlayerOf(line, "white")) = Lower(username) THEN "white"
    ELSE IF PlayerId(PlayerOf(line, "black")) = Lower(username) THEN "black"
    ELSE "None"

OppColor(user_color) == IF user_color = "white" THEN "black" ELSE "white"

\* str(game.get("status", "")).lower()
StatusOf(line) ==
    IF line.status = Absent THEN ""
    ELSE IF line.status = Null THEN "none"
    ELSE Lower(line.status)

Outcome(user_color, winner, status) ==
    IF user_color = "None" THEN "None"
    ELSE IF winner = user_color THEN "win"
    ELSE IF winner \in {"white", "black"} THEN "loss"
    ELSE IF status \in DrawStatuses \/ winner \in {Absent, Null} THEN "draw"
    ELSE "draw"

CountResultBoth(st, user_color, outcome) ==
    IF user_color # "None"
    THEN [st EXCEPT !.results[outcome] = @ + 1,
                    !.color_results[user_color][outcome] = @ + 1]
    ELSE [st EXCEPT !.results["draw"] = @ + 1]

CountResult(st, user_color, outcome) ==
    IF user_color # "None"
    THEN [st EXCEPT !.results[outcome] = @ + 1,
                    !.color_results[user_color][outcome] = @ + 1]
    ELSE st

TimelineAppendAll(tl, user_color, ts, outcome) ==
    Append(tl, <<PyOr(ts, 0), outcome>>)

\* timeline.append((ts or 0, outcome)), inside `if user_color:`
TimelineAppend(tl, user_color, ts, outcome) ==
    IF user_color # "None" THEN Append(tl, <<PyOr(ts, 0), outcome>>) ELSE tl

CountEndingIdentified(st, status, outcome) ==
    IF status # "" /\ outcome # "None"
    THEN LET key == IF status \in Endings THEN status ELSE "other"
         IN [st EXCEPT !.endings[key] = @ + 1]
    ELSE st

CountEnding(st, status, outcome) ==
    IF status # ""
    THEN LET key == IF status \in Endings THEN status ELSE "other"
             st1 == [st EXCEPT !.endings[key] = @ + 1]
         IN IF status \in {"timeout", "outoftime"}
            THEN IF outcome = "win" THEN [st1 EXCEPT !.timeout_wins = @ + 1]
                 ELSE IF outcome = "loss" THEN [st1 EXCEPT !.timeout_losses = @ + 1]
                 ELSE st1
            ELSE st1
    ELSE st

\* list.sort(key=rating, reverse=True) is stable: an element goes behind
\* every element whose rating is at least its own.
RECURSIVE InsertDesc(_, _)
InsertDesc(sorted, x) ==
    IF sorted = <<>> THEN <<x>>
    ELSE IF Head(sorted)[1] >= x[1] THEN <<Head(sorted)>> \o InsertDesc(Tail(sorted), x)
    ELSE <<x>> \o sorted

RECURSIVE SortDesc(_)
SortDesc(seq) ==
    IF seq = <<>> THEN <<>>
    ELSE InsertDesc(SortDesc(SubSeq(seq, 1, Len(seq) - 1)), seq[Len(seq)])

TopWinsInsertPopFirst(top, entry) ==
    LET s == SortDesc(Append(top, entry))
    IN IF Len(s) > TopK THEN Tail(s) ELSE s

\* append, sort descending by rating, pop the last one beyond three
TopWinsInsert(top, entry) ==
    LET s == SortDesc(Append(top, entry))
    IN IF Len(s) > TopK THEN SubSeq(s, 1, Len(s) - 1) ELSE s

HistAdd(hist, bucket) ==
    IF bucket \in DOMAIN hist
    THEN [hist EXCEPT ![bucket] = @ + 1]
    ELSE [b \in DOMAIN hist \cup {bucket} |-> IF b = bucket THEN 1 ELSE hist[b]]

CountOpponent(st, line, user_color, outcome) ==
    IF user_color = "None" THEN st
    ELSE
      LET opp == PlayerOf(line, OppColor(user_color))
          r == opp.rating
      IN IF ~IsInt(r) THEN st
         ELSE
           LET st1 == [st EXCEPT !.opponent_rating_sum = @ + r,
                                 !.opponent_rating_count = @ + 1]
               st2 == IF line.speed \in Speeds
                      THEN [st1 EXCEPT !.opponent_by_speed[line.speed].sum = @ + r,
                                       !.opponent_by_speed[line.speed].count = @ + 1]
                      ELSE st1
               st3 == [st2 EXCEPT !.opponent_hist = HistAdd(@, (r \div 100) * 100)]
               nm == IF opp.user = "dict" /\ opp.name \notin {Absent, Null, ""}
                     THEN opp.name ELSE "?"
               gid == IF line.id = Absent THEN Null ELSE line.id
           IN IF outcome = "win"
              THEN [st3 EXCEPT !.top_wins = TopWinsInsert(@, <<r, nm, gid>>)]
              ELSE st3

\* The body of `for raw_line in response:` for one line.  The result carries
\* the three objects the loop mutates and whether an AttributeError left it.
IngestLine(m, line) ==
    IF line.json = "blank" THEN m
    ELSE
      LET st0 == [m.stats EXCEPT !.total = @ + 1]
          m0 == [m EXCEPT !.stats = st0]
      IN IF line.json = "bad" THEN m0
         ELSE IF line.json # "obj" THEN [m0 EXCEPT !.raised = TRUE]
         ELSE
           LET ts == TsOf(line)
               tss == IF IsInt(ts) THEN Append(m.timestamps, ts) ELSE m.timestamps
               st1 == CountSpeed(CountTimestamp(st0, ts), line.speed)
               m1 == [m0 EXCEPT !.stats = st1, !.timestamps = tss]
           IN IF \/ line.players = Null
                 \/ PlayerIdRaises(PlayerOf(line, "white"))
                 \/ PlayerIdRaises(PlayerOf(line, "black"))
              THEN [m1 EXCEPT !.raised = TRUE]
              ELSE
                LET user_color == UserColor(line)
                    status == StatusOf(line)
                    outcome == Outcome(user_color, line.winner, status)
                    st2 == CountResult(st1, user_color, outcome)
                    st3 == CountEnding(st2, status, outcome)
                    st4 == CountOpponent(st3, line, user_color, outcome)
                IN [m1 EXCEPT !.stats = st4,
                              !.timeline = TimelineAppend(@, user_color, ts, outcome)]

\* ------------------------------------------------------------------ finalization

\* list.sort(key=ts) is stable: an element goes behind every element whose
\* key is at most its own.
RECURSIVE InsertAsc(_, _)
InsertAsc(sorted, x) ==
    IF sorted = <<>> THEN <<x>>
    ELSE IF Head(sorted)[1] <= x[1] THEN <<Head(sorted)>> \o InsertAsc(Tail(sorted), x)
    ELSE <<x>> \o sorted

RECURSIVE SortAsc(_)
SortAsc(seq) ==
    IF seq = <<>> THEN <<>>
    ELSE InsertAsc(SortAsc(SubSeq(seq, 1, Len(seq) - 1)), seq[Len(seq)])

SortTimelineNoSort(tl) == tl

SortTimeline(tl) == SortAsc(tl)

\* The walk over the sorted timeline; w is
\* [cw, cl, lw, ll] = current win, current loss, longest win, longest loss.
RECURSIVE Walk(_, _)
Walk(tl, w) ==
    IF tl = <<>> THEN w
    ELSE
      LET o == Head(tl)[2]
          cw == IF o = "win" THEN w.cw + 1 ELSE 0
          cl == IF o = "loss" THEN w.cl + 1 ELSE 0
      IN Walk(Tail(tl), [cw |-> cw, cl |-> cl,
                         lw |-> Max(w.lw, cw), ll |-> Max(w.ll, cl)])

RECURSIVE WalkDrawKeeps(_, _)
WalkDrawKeeps(tl, w) ==
    IF tl = <<>> THEN w
    ELSE
      LET o == Head(tl)[2]
          cw == IF o = "win" THEN w.cw + 1 ELSE IF o = "loss" THEN 0 ELSE w.cw
          cl == IF o = "loss" THEN w.cl + 1 ELSE IF o = "win" THEN 0 ELSE w.cl
      IN WalkDrawKeeps(Tail(tl), [cw |-> cw, cl |-> cl,
                                  lw |-> Max(w.lw, cw), ll |-> Max(w.ll, cl)])

StreaksDrawKeeps(tl) == WalkDrawKeeps(tl, [cw |-> 0, cl |-> 0, lw |-> 0, ll |-> 0])

Streaks(tl) == Walk(tl, [cw |-> 0, cl |-> 0, lw |-> 0, ll |-> 0])

\* timestamps.sort() on plain ints
RECURSIVE SortInts(_)
SortInts(seq) ==
    IF seq = <<>> THEN <<>>
    ELSE LET rest == SortInts(SubSeq(seq, 1, Len(seq) - 1))
             x == seq[Len(seq)]
             k == Cardinality({i \in 1..Len(rest) : rest[i] <= x})
         IN SubSeq(rest, 1, k) \o <<x>> \o SubSeq(rest, k + 1, Len(rest))

RECURSIVE MaxGap(_, _)
MaxGap(ts, i) ==
    IF i > Len(ts) THEN 0
    ELSE IF i = Len(ts) THEN ts[i] - ts[i - 1]
    ELSE Max(ts[i] - ts[i - 1], MaxGap(ts, i + 1))

LongestGapUnsorted(tss) == IF Len(tss) > 1 THEN MaxGap(tss, 2) ELSE 0

\* max(gaps) over the sorted buffer, only when it holds more than one entry
LongestGap(tss) == IF Len(tss) > 1 THEN MaxGap(SortInts(tss), 2) ELSE 0

\* Lines 196-218: what fetch_game_stats does after the loop.
Finalize(m) ==
    LET tl == IF m.timeline # <<>> THEN SortTimeline(m.timeline) ELSE m.timeline
        w == Streaks(tl)
        tss == IF Len(m.timestamps) > 1 THEN SortInts(m.timestamps) ELSE m.timestamps
        st1 == IF m.timeline # <<>>
               THEN [m.stats EXCEPT !.longest_win_streak = w.lw,
                                    !.longest_loss_streak = w.ll]
               ELSE m.stats
        st2 == IF Len(m.timestamps) > 1
               THEN [st1 EXCEPT !.longest_gap_ms = LongestGap(m.timestamps)]
               ELSE st1
    IN [m EXCEPT !.stats = st2, !.timeline = tl, !.timestamps = tss]

\* ------------------------------------------------------------------ inputs

MaxLines == 3
MaxStreakLines == 3
MaxTopLines == 4

\* Lines of every kind the loop distinguishes.
LinesGeneral ==
    { BlankLine, BadJson, NonObject,
      \* "players": null, with a timestamp, a speed and a status
      Line("obj", 1000, NoInt, "blitz", Null, NoPlayer, NoPlayer, "mate", "white", "g0"),
      \* white's "id" is null
      Line("obj", NoInt, NoInt, Absent, "dict",
           Player("dict", "dict", Null, Absent, NoInt),
           Player("dict", "dict", "alice", "alice", NoInt), Absent, Absent, "g1"),
      \* white's "user" is null: (white.get("user") or {}) reads it as missing
      Line("obj", 2000, NoInt, "bullet", "dict",
           Player("dict", Null, Absent, Absent, 1400),
           Player("dict", "dict", "bob", "bob", 1450), "mate", "black", "g9"),
      \* "black": null although white is the subject
      Line("obj", NoInt, 2000, "rapid", "dict",
           Player("dict", "dict", "alice", "alice", 1500), NullPlayer,
           "resign", "white", "g2"),
      Game(1000, 1500, "blitz", "ALICE", 1510, "bob", 1500, "mate", "white", "g3"),
      Game(5000, NoInt, "bullet", "Bob", 1650, "alice", 1600, "outoftime", "white", "g4"),
      Game(NoInt, NoInt, "correspondence", "alice", NoInt, "carol", NoInt, "draw", Absent, "g5"),
      Game(NoInt, 6000, "rapid", "bob", 1500, "carol", 1700, "resign", "white", "g6"),
      \* no "players" key, no speed, no status, no timestamp
      Line("obj", NoInt, NoInt, Absent, Absent, NoPlayer, NoPlayer, Absent, Absent, "g7"),
      Game(3600000, NoInt, "classical", "dave", 1725, "Alice", 1600, "timeout", "black", "g8") }

\* The subject's wins, losses and draws at equal, different and missing
\* timestamps, and games of two other players between them.
LinesStreak ==
    { Game(ts, NoInt, "blitz", "alice", NoInt, "bob", NoInt, "mate", winner, "s") :
        ts \in {NoInt, 1000, 3000}, winner \in {"white", "black", Absent} }
    \cup { Game(ts, NoInt, "blitz", "carol", NoInt, "bob", NoInt, "mate", "white", "s") :
             ts \in {NoInt, 2000} }

\* Wins against opponents of equal and different ratings, and one loss.
LinesTop ==
    { Game(NoInt, NoInt, "blitz", "alice", 1500, o[1], o[2], "mate", "white", o[1]) :
        o \in { <<"bob", 1500>>, <<"carol", 1500>>, <<"dave", 1600>>,
                <<"erin", 1400>>, <<"frank", 1700>> } }
    \cup { Game(NoInt, NoInt, "blitz", "alice", 1500, "gus", 1800, "mate", "black", "gus") }

ExampleGame(ts, winner) ==
    Game(ts, NoInt, "blitz", "alice", NoInt, "bob", NoInt, "mate", winner, "e")

\* [win, win, loss, win, win, win, draw, loss, loss] by timestamp, delivered
\* most recent first.
StreakExample ==
    << ExampleGame(9000, "black"), ExampleGame(8000, "black"), ExampleGame(7000, Absent),
       ExampleGame(6000, "white"), ExampleGame(5000, "white"), ExampleGame(4000, "white"),
       ExampleGame(3000, "black"), ExampleGame(2000, "white"), ExampleGame(1000, "white") >>

\* timestamps 1000, 5000, 6000, 50000 out of order, two of them on games the
\* subject did not play.
GapExample ==
    << ExampleGame(50000, "white"),
       Game(1000, NoInt, "blitz", "carol", NoInt, "bob", NoInt, "mate", "white", "e"),
       ExampleGame(6000, "black"),
       Game(NoInt, 5000, "blitz", "carol", NoInt, "bob", NoInt, "mate", "white", "e") >>

Range(seq) == {seq[i] : i \in 1..Len(seq)}

IsPrefix(a, b) == Len(a) <= Len(b) /\ SubSeq(b, 1, Len(a)) = a

\* The responses the model delivers: up to a bounded number of lines of one
\* family, or one of the two examples.
Deliverable(sofar, line) ==
    \/ Len(sofar) < MaxLines /\ Range(sofar) \cup {line} \subseteq LinesGeneral
    \/ Len(sofar) < MaxStreakLines /\ Range(sofar) \cup {line} \subseteq LinesStreak
    \/ Len(sofar) < MaxTopLines /\ Range(sofar) \cup {line} \subseteq LinesTop
    \/ IsPrefix(Append(sofar, line), StreakExample)
    \/ IsPrefix(Append(sofar, line), GapExample)

AllLines ==
    LinesGeneral \cup LinesStreak \cup LinesTop \cup Range(StreakExample) \cup Range(GapExample)

\* ------------------------------------------------------------------ actions

Machine == [stats |-> stats, timeline |-> timeline, timestamps |-> timestamps,
            raised |-> FALSE]

Init ==
    /\ pc = "open"
    /\ stream = <<>>
    /\ stats = InitStats
    /\ timeline = <<>>
    /\ timestamps = <<>>
    /\ failed = "none"
    /\ stdout = 0
    /\ stderr = <<>>
    /\ rc = NoInt

\* urllib.request.urlopen(request) returns the response.
Open ==
    /\ pc = "open"
    /\ pc' = "reading"
    /\ UNCHANGED <<stream, stats, timeline, timestamps, failed, stdout, stderr, rc>>

FetchFailReturnsPartial(kind) ==
    /\ pc \in {"open", "reading"}
    /\ failed' = kind
    /\ pc' = "returned"
    /\ UNCHANGED <<stream, stats, timeline, timestamps, stdout, stderr, rc>>

\* urlopen or the iteration raises HTTPError or URLError; both except clauses
\* raise RuntimeError out of fetch_game_stats.
FetchFail(kind) ==
    /\ pc \in {"open", "reading"}
    /\ failed' = kind
    /\ pc' = "raised"
    /\ UNCHANGED <<stream, stats, timeline, timestamps, stdout, stderr, rc>>

\* One pass of the loop body on the next line of the response.
ReadLine(line) ==
    /\ pc = "reading"
    /\ Deliverable(stream, line)
    /\ LET m == IngestLine(Machine, line)
       IN /\ stats' = m.stats
          /\ timeline' = m.timeline
          /\ timestamps' = m.timestamps
          /\ pc' = IF m.raised THEN "attr_error" ELSE "reading"
    /\ stream' = Append(stream, line)
    /\ UNCHANGED <<failed, stdout, stderr, rc>>

\* The response is exhausted: the sort-and-walk pass, then return stats.
EndOfStream ==
    /\ pc = "reading"
    /\ LET m == Finalize(Machine)
       IN /\ stats' = m.stats
          /\ timeline' = m.timeline
          /\ timestamps' = m.timestamps
    /\ pc' = "returned"
    /\ UNCHANGED <<stream, failed, stdout, stderr, rc>>

\* main after fetch_game_stats returned: the report, return 0.
MainReport ==
    /\ pc = "returned"
    /\ stdout' = stdout + 1
    /\ rc' = 0
    /\ pc' = "exit"
    /\ UNCHANGED <<stream, stats, timeline, timestamps, failed, stderr>>

\* main's `except RuntimeError`: one line on stderr, return 1.
MainError ==
    /\ pc = "raised"
    /\ stderr' = Append(stderr, "Error")
    /\ rc' = 1
    /\ pc' = "exit"
    /\ UNCHANGED <<stream, stats, timeline, timestamps, failed, stdout>>

\* An AttributeError is no RuntimeError: it leaves main, which returns nothing.
MainUncaught ==
    /\ pc = "attr_error"
    /\ stderr' = stderr \o <<"Traceback", "AttributeError">>
    /\ pc' = "exit"
    /\ UNCHANGED <<stream, stats, timeline, timestamps, failed, stdout, rc>>

Next ==
    \/ Open
    \/ \E kind \in {"http", "url"} : FetchFail(kind)
    \/ \E line \in AllLines : ReadLine(line)
    \/ EndOfStream
    \/ MainReport
    \/ MainError
    \/ MainUncaught

Spec == Init /\ [][Next]_vars

\* ------------------------------------------------------------------ what the stream held

Count(P(_), s) == Cardinality({i \in 1..Len(s) : P(s[i])})

Sum4(f) == f["bullet"] + f["blitz"] + f["rapid"] + f["classical"]

ResultsSum == stats.results["win"] + stats.results["loss"] + stats.results["draw"]

NonBlank(line) == line.json # "blank"

FailedToParse(line) == line.json = "bad"

\* A player slot whose id equals the username, case-insensitively.
IdMatches(p) ==
    p.shape = "dict" /\ p.user = "dict" /\ p.uid \notin {Absent, Null}
    /\ Lower(p.uid) = Lower(username)

Identifiable(line) ==
    line.json = "obj" /\ line.players = "dict"
    /\ (IdMatches(line.white) \/ IdMatches(line.black))

\* Valid JSON of the wrong shape: not an object at the top, or a players,
\* white/black, user or id field that is null or not an object.
WrongShape(line) ==
    \/ line.json = "nonobj"
    \/ line.json = "obj" /\ line.players = Null
    \/ line.json = "obj" /\ line.players = "dict"
       /\ \E p \in {line.white, line.black} :
            \/ p.shape = Null
            \/ p.shape = "dict" /\ p.user \in {Null, "str"}
            \/ p.shape = "dict" /\ p.user = "dict" /\ p.uid = Null

Malformed(line) == FailedToParse(line) \/ WrongShape(line)

\* A JSON object whose players, player slots and ids the loop can read; a
\* null user is read as a missing one.
WellFormed(line) ==
    /\ line.json = "obj"
    /\ line.players # Null
    /\ line.players = "dict"
         => \A p \in {line.white, line.black} :
              /\ p.shape # Null
              /\ p.shape = "dict" => p.user # "str"
              /\ p.shape = "dict" /\ p.user = "dict" => p.uid # Null

\* fetch_game_stats returned its stats (and main may have printed them).
Returned == pc = "returned" \/ (pc = "exit" /\ rc = 0)

LastLine == stream[Len(stream)]

\* ------------------------------------------------------------------ C1

\* C1: after every line, total is the number of non-blank lines delivered and
\* the four speed counters plus other_speeds add up to total minus the number
\* of lines that failed to decode or parse as JSON.
C1_TotalConsistency ==
    /\ stats.total = Count(NonBlank, stream)
    /\ Sum4(stats.speed_counts) + stats.other_speeds
         = stats.total - Count(FailedToParse, stream)

\* ------------------------------------------------------------------ C2

\* C2: a malformed line (not JSON, or JSON of the wrong shape) increments
\* total, changes no other statistic and no buffer, raises nothing, and the
\* loop goes on reading.
C2_MalformedRecovered ==
    [][ (pc = "reading" /\ stream' # stream /\ Malformed(stream'[Len(stream')]))
          => /\ pc' = "reading"
             /\ stats' = [stats EXCEPT !.total = @ + 1]
             /\ UNCHANGED <<timeline, timestamps>> ]_vars

\* ------------------------------------------------------------------ C9

\* C9: win + loss + draw never exceeds total; it equals total only when the
\* subject is identifiable in every counted line; one counted line that
\* failed to parse or matched neither player makes it strictly smaller.
C9_OutcomeConservation ==
    /\ ResultsSum <= stats.total
    /\ ResultsSum = stats.total
         => \A i \in 1..Len(stream) : NonBlank(stream[i]) => Identifiable(stream[i])
    /\ (\E i \in 1..Len(stream) : NonBlank(stream[i]) /\ ~Identifiable(stream[i]))
         => ResultsSum < stats.total

C9_Witness ==
    /\ stats.total = 3
    /\ ResultsSum = 2
    /\ \E i \in 1..Len(stream) : WellFormed(stream[i]) /\ ~Identifiable(stream[i])

\* ------------------------------------------------------------------ C8

\* C8: once the fetch met an HTTP or URL error, at open or after lines were
\* aggregated, fetch_game_stats has raised and never returns, no statistics
\* are printed, and main ends with one diagnostic line and status 1.
C8_FailureAborts ==
    failed # "none"
      => /\ pc \in {"raised", "exit"}
         /\ stdout = 0
         /\ pc = "raised" => stderr = <<>> /\ rc = NoInt
         /\ pc = "exit" => Len(stderr) = 1 /\ rc = 1

C8_Witness ==
    /\ failed = "url"
    /\ stats.total >= 2
    /\ pc = "exit"
    /\ rc = 1

\* ------------------------------------------------------------------ C10

SumOver(f) ==
    LET RECURSIVE Go(_)
        Go(D) == IF D = {} THEN 0
                 ELSE LET d == CHOOSE x \in D : TRUE IN f[d] + Go(D \ {d})
    IN Go(DOMAIN f)

\* createdAt when it is there, else lastMoveAt
Timestamp(line) ==
    IF line.createdAt # NoInt THEN line.createdAt ELSE line.lastMoveAt

SubjectRelative(st) ==
    <<st.results, st.color_results, st.timeout_wins, st.timeout_losses,
      st.opponent_rating_sum, st.opponent_rating_count, st.opponent_by_speed,
      st.opponent_hist, st.top_wins>>

\* C10: a parsed record in which neither player id matches the subject leaves
\* every subject-relative statistic and the timeline buffer unchanged, and
\* still updates total, the speed counter or other_speeds, the endings bucket
\* of a non-empty status, and the timestamp buffer and the three calendar
\* histograms when it carries a timestamp.
C10_UnmatchedRecordFrame ==
    [][ (pc = "reading" /\ stream' # stream
         /\ WellFormed(stream'[Len(stream')]) /\ ~Identifiable(stream'[Len(stream')]))
          => LET line == stream'[Len(stream')]
                 ts == Timestamp(line)
                 status == IF line.status = Absent THEN "" ELSE line.status
             IN /\ pc' = "reading"
                /\ SubjectRelative(stats') = SubjectRelative(stats)
                /\ timeline' = timeline
                /\ stats'.total = stats.total + 1
                /\ IF line.speed \in Speeds
                   THEN /\ stats'.speed_counts
                             = [stats.speed_counts EXCEPT ![line.speed] = @ + 1]
                        /\ stats'.other_speeds = stats.other_speeds
                   ELSE /\ stats'.speed_counts = stats.speed_counts
                        /\ stats'.other_speeds = stats.other_speeds + 1
                /\ IF status # ""
                   THEN stats'.endings
                          = [stats.endings EXCEPT
                               ![IF status \in Endings THEN status ELSE "other"] = @ + 1]
                   ELSE stats'.endings = stats.endings
                /\ IF ts # NoInt
                   THEN /\ timestamps' = Append(timestamps, ts)
                        /\ SumOver(stats'.month_counts) = SumOver(stats.month_counts) + 1
                        /\ SumOver(stats'.wday_counts) = SumOver(stats.wday_counts) + 1
                        /\ SumOver(stats'.hour_counts) = SumOver(stats.hour_counts) + 1
                   ELSE /\ timestamps' = timestamps
                        /\ stats'.month_counts = stats.month_counts
                        /\ stats'.wday_counts = stats.wday_counts
                        /\ stats'.hour_counts = stats.hour_counts ]_vars

C10_Witness ==
    /\ pc = "reading"
    /\ Len(stream) = 2
    /\ Identifiable(stream[1])
    /\ WellFormed(LastLine) /\ ~Identifiable(LastLine)
    /\ LastLine.status = "resign" /\ Timestamp(LastLine) = 6000
    /\ stats.endings["resign"] = 1
    /\ ResultsSum = 1
    /\ Len(timestamps) = 2 /\ Len(timeline) = 1

\* ------------------------------------------------------------------ C6

\* The won games with an integer opponent rating, in delivery order, as
\* (rating, name, game id).
IsRatedWin(line) ==
    /\ WellFormed(line) /\ Identifiable(line)
    /\ LET me == IF IdMatches(line.white) THEN "white" ELSE "black"
       IN /\ line.winner = me
          /\ line[OppColor(me)].rating # NoInt

RatedWins(s) ==
    LET w == SelectSeq(s, IsRatedWin)
    IN [i \in 1..Len(w) |->
          LET me == IF IdMatches(w[i].white) THEN "white" ELSE "black"
              opp == w[i][OppColor(me)]
          IN <<opp.rating, IF opp.name \in {Absent, Null, ""} THEN "?" ELSE opp.name,
               w[i].id>>]

\* i comes before j in the ranking: higher rating, or equal rating and seen
\* earlier.
RanksBefore(w, i, j) == w[i][1] > w[j][1] \/ (w[i][1] = w[j][1] /\ i < j)

BestThree(w) ==
    LET n == IF Len(w) < TopK THEN Len(w) ELSE TopK
        At(k) == CHOOSE i \in 1..Len(w) :
                   Cardinality({j \in 1..Len(w) : RanksBefore(w, j, i)}) = k - 1
    IN [k \in 1..n |-> w[At(k)]]

MinRating(top) == top[Len(top)][1]

C6_TopWinsInv ==
    /\ Len(stats.top_wins) <= TopK
    /\ \A k \in 1..(Len(stats.top_wins) - 1) :
         stats.top_wins[k][1] >= stats.top_wins[k + 1][1]
    /\ stats.top_wins = BestThree(RatedWins(stream))

C6_TopWinsStep ==
    (pc = "reading" /\ stream' # stream /\ IsRatedWin(stream'[Len(stream')])
     /\ Len(stats.top_wins) = TopK)
      => LET w == RatedWins(stream')
             new == w[Len(w)]
             old == stats.top_wins
         IN /\ new[1] < MinRating(old) => stats'.top_wins = old
            /\ new[1] = MinRating(old) => stats'.top_wins = old
            /\ new[1] > MinRating(old)
                 => /\ Len(stats'.top_wins) = TopK
                    /\ \E k \in 1..TopK :
                         stats'.top_wins =
                           SubSeq(old, 1, k - 1) \o <<new>> \o SubSeq(old, k, TopK - 1)

\* C6: after every record top_wins has at most 3 entries, is sorted by rating
\* descending and holds the 3 highest-rated beaten opponents so far, the
\* earlier-seen first among equal ratings; a new win below all three changes
\* nothing, one above the current minimum evicts the current minimum.
C6_TopWins == [](C6_TopWinsInv) /\ [][C6_TopWinsStep]_vars

C6_Witness ==
    /\ Len(stats.top_wins) = TopK
    /\ Len(RatedWins(stream)) = 4
    /\ RatedWins(stream)[1][1] = 1500 /\ RatedWins(stream)[2][1] = 1500
    /\ RatedWins(stream)[4][1] = 1700
    /\ stats.top_wins[1][1] = 1700
    /\ stats.top_wins[TopK] = RatedWins(stream)[1]

\* ------------------------------------------------------------------ C4

Occurrences(seq, x) == Cardinality({i \in 1..Len(seq) : seq[i] = x})

SamePairs(a, b) ==
    /\ Len(a) = Len(b)
    /\ \A x \in Range(a) \cup Range(b) : Occurrences(a, x) = Occurrences(b, x)

\* Length of the longest block of consecutive entries of tl with outcome o.
LongestBlock(tl, o) ==
    LET blocks == { <<i, j>> \in (1..Len(tl)) \X (1..Len(tl)) :
                      i <= j /\ \A k \in i..j : tl[k][2] = o }
    IN IF blocks = {} THEN 0
       ELSE LET b == CHOOSE b \in blocks :
                       \A c \in blocks : c[2] - c[1] <= b[2] - b[1]
            IN b[2] - b[1] + 1

\* The (ts or 0, outcome) pairs of the games the subject played, in delivery
\* order.
SubjectPair(line) ==
    LET me == IF IdMatches(line.white) THEN "white" ELSE "black"
        ts == Timestamp(line)
    IN << IF ts = NoInt THEN 0 ELSE ts,
          IF line.winner = me THEN "win"
          ELSE IF line.winner \in {"white", "black"} THEN "loss" ELSE "draw" >>

IdentifiedGame(line) == WellFormed(line) /\ Identifiable(line)

DeliveredTimeline(s) ==
    LET g == SelectSeq(s, IdentifiedGame)
    IN [i \in 1..Len(g) |-> SubjectPair(g[i])]

OutcomesOf(tl) == [i \in 1..Len(tl) |-> tl[i][2]]

ExampleOutcomes ==
    <<"win", "win", "loss", "win", "win", "win", "draw", "loss", "loss">>

\* C4: at return the timeline holds the delivered pairs sorted by timestamp
\* ascending, and the two streaks are the lengths of the longest blocks of
\* consecutive wins and of consecutive losses in it (0 for an empty
\* timeline); the outcomes [win, win, loss, win, win, win, draw, loss, loss]
\* give 3 and 2.
C4_StreaksFromSortedTimeline ==
    Returned
      => /\ SamePairs(timeline, DeliveredTimeline(stream))
         /\ \A k \in 1..(Len(timeline) - 1) : timeline[k][1] <= timeline[k + 1][1]
         /\ stats.longest_win_streak = LongestBlock(timeline, "win")
         /\ stats.longest_loss_streak = LongestBlock(timeline, "loss")
         /\ timeline = <<>>
              => stats.longest_win_streak = 0 /\ stats.longest_loss_streak = 0
         /\ OutcomesOf(timeline) = ExampleOutcomes
              => stats.longest_win_streak = 3 /\ stats.longest_loss_streak = 2

C4_Witness ==
    /\ pc = "returned"
    /\ stream = StreakExample
    /\ OutcomesOf(timeline) = ExampleOutcomes
    /\ stats.longest_win_streak = 3
    /\ stats.longest_loss_streak = 2

\* ------------------------------------------------------------------ C5

\* Every parsed game in chronological order, a game the subject did not play
\* entered with outcome "None".
AnyPair(line) ==
    IF Identifiable(line) THEN SubjectPair(line)
    ELSE << IF Timestamp(line) = NoInt THEN 0 ELSE Timestamp(line), "None" >>

ChronoAll(s) ==
    LET g == SelectSeq(s, WellFormed)
    IN SortAsc([i \in 1..Len(g) |-> AnyPair(g[i])])

ChronoSubject(s) == SortAsc(DeliveredTimeline(s))

\* Every parsed game carries a timestamp and no two share one.
ChronologyClear(s) ==
    LET g == SelectSeq(s, WellFormed)
    IN \A i \in 1..Len(g) :
         /\ Timestamp(g[i]) # NoInt
         /\ \A j \in 1..Len(g) : i # j => Timestamp(g[i]) # Timestamp(g[j])

\* C5 as claimed: a game in which the subject is not identifiable resets both
\* streak counters as a draw does, so (where the chronological order is
\* unambiguous) the streaks are the longest blocks of wins and of losses
\* among all games in chronological order.
C5_UnidentifiedResets ==
    Returned /\ ChronologyClear(stream)
      => /\ stats.longest_win_streak = LongestBlock(ChronoAll(stream), "win")
         /\ stats.longest_loss_streak = LongestBlock(ChronoAll(stream), "loss")

\* C5 amended: a game in which the subject is not identifiable is not entered
\* in the timeline and resets nothing; the streaks are the longest blocks of
\* wins and of losses among the subject's own games in chronological order,
\* so two wins with only such games between them are in one streak.
C5_UnidentifiedIgnored ==
    Returned
      => /\ Len(timeline) = Count(IdentifiedGame, stream)
         /\ \A k \in 1..Len(timeline) : timeline[k][2] \in Outcomes
         /\ stats.longest_win_streak = LongestBlock(ChronoSubject(stream), "win")
         /\ stats.longest_loss_streak = LongestBlock(ChronoSubject(stream), "loss")

C5_Witness ==
    /\ pc = "returned"
    /\ Len(stream) = 3
    /\ OutcomesOf(ChronoAll(stream)) = <<"win", "None", "win">>
    /\ ChronoAll(stream)[1][1] < ChronoAll(stream)[2][1]
    /\ ChronoAll(stream)[2][1] < ChronoAll(stream)[3][1]
    /\ stats.longest_win_streak = 2

\* ------------------------------------------------------------------ C7

HasTimestamp(line) == WellFormed(line) /\ Timestamp(line) # NoInt

TimestampsOf(s) ==
    LET g == SelectSeq(s, HasTimestamp)
    IN [i \in 1..Len(g) |-> Timestamp(g[i])]

\* Largest difference between two values with no third one between them; two
\* records with the same timestamp are adjacent with difference 0.
LargestAdjacentGap(ts) ==
    LET V == Range(ts)
        gaps == { b - a : <<a, b>> \in { p \in V \X V :
                    p[1] < p[2] /\ ~\E c \in V : p[1] < c /\ c < p[2] }}
    IN IF Len(ts) < 2 \/ gaps = {} THEN 0
       ELSE CHOOSE g \in gaps : \A h \in gaps : h <= g

\* C7: at return longest_gap_ms is the largest difference between two
\* chronologically adjacent timestamps over all parsed records that carried
\* one, whoever played and in whatever order they came; 0 with fewer than two
\* timestamps, never negative, and 44000 for 1000, 5000, 6000, 50000.
C7_LongestGap ==
    Returned
      => /\ stats.longest_gap_ms = LargestAdjacentGap(TimestampsOf(stream))
         /\ stats.longest_gap_ms >= 0
         /\ Len(TimestampsOf(stream)) < 2 => stats.longest_gap_ms = 0
         /\ Range(TimestampsOf(stream)) = {1000, 5000, 6000, 50000}
              /\ Len(TimestampsOf(stream)) = 4
              => stats.longest_gap_ms = 44000

C7_Witness ==
    /\ pc = "returned"
    /\ stream = GapExample
    /\ timestamps = <<1000, 5000, 6000, 50000>>
    /\ Count(Identifiable, stream) = 2
    /\ stats.longest_gap_ms = 44000

\* ------------------------------------------------------------------ C3

\* fetch_game_stats on a whole response: the loop over its lines, then the
\* pass after the loop unless a line raised.
RECURSIVE IngestAll(_, _)
IngestAll(m, s) ==
    IF s = <<>> \/ m.raised THEN m
    ELSE IngestAll(IngestLine(m, Head(s)), Tail(s))

FetchAll(s) ==
    LET m == IngestAll([stats |-> InitStats, timeline |-> <<>>, timestamps |-> <<>>,
                        raised |-> FALSE], s)
    IN IF m.raised THEN m ELSE Finalize(m)

Swap(s, i, j) ==
    [k \in 1..Len(s) |-> IF k = i THEN s[j] ELSE IF k = j THEN s[i] ELSE s[k]]

\* The same lines delivered in timestamp order (lines without one first).
RECURSIVE SortedDelivery(_)
SortedDelivery(s) ==
    IF s = <<>> THEN <<>>
    ELSE LET rest == SortedDelivery(SubSeq(s, 1, Len(s) - 1))
             x == s[Len(s)]
             key(l) == IF Timestamp(l) = NoInt THEN 0 ELSE Timestamp(l)
             k == Cardinality({i \in 1..Len(rest) : key(rest[i]) <= key(x)})
         IN SubSeq(rest, 1, k) \o <<x>> \o SubSeq(rest, k + 1, Len(rest))

\* Other delivery orders of the same lines: every exchange of two lines, and
\* the timestamp order.  Exchanges generate every permutation, and with a
\* response the model delivers every reordering of it within its family.
Reorderings(s) ==
    { Swap(s, i, j) : i \in 1..Len(s), j \in 1..Len(s) } \cup { SortedDelivery(s) }

OrderFree(st) ==
    [st EXCEPT !.top_wins = <<>>, !.longest_win_streak = 0, !.longest_loss_streak = 0]

DistinctTimelineKeys(s) ==
    LET tl == DeliveredTimeline(s)
    IN \A i \in 1..Len(tl) : \A j \in 1..Len(tl) : i # j => tl[i][1] # tl[j][1]

DistinctWonRatings(s) ==
    LET w == RatedWins(s)
    IN \A i \in 1..Len(w) : \A j \in 1..Len(w) : i # j => w[i][1] # w[j][1]

\* C3 as claimed: every delivery order of the same records, the timestamp
\* order included, returns the same statistics in every field.
C3_OrderIndependent ==
    pc = "returned" => \A q \in Reorderings(stream) : FetchAll(q).stats = stats

\* C3 amended: every delivery order of the same records returns the same
\* counters, histograms and longest_gap_ms; the same top_wins when the won
\* games with an integer opponent rating have pairwise different ratings; and
\* the same two streaks, those of the timestamp order, when the subject's
\* games have pairwise different timeline keys.
C3_OrderIndependentUpToTies ==
    pc = "returned"
      => \A q \in Reorderings(stream) :
           LET r == FetchAll(q)
           IN /\ ~r.raised
              /\ OrderFree(r.stats) = OrderFree(stats)
              /\ DistinctWonRatings(stream) => r.stats.top_wins = stats.top_wins
              /\ DistinctTimelineKeys(stream)
                   => /\ r.stats.longest_win_streak = stats.longest_win_streak
                      /\ r.stats.longest_loss_streak = stats.longest_loss_streak

C3_Witness ==
    /\ pc = "returned"
    /\ Len(stream) = 3
    /\ DistinctTimelineKeys(stream)
    /\ Len(DeliveredTimeline(stream)) = 3
    /\ SortedDelivery(stream) # stream
    /\ stats.longest_win_streak = 2
    /\ stats.longest_loss_streak = 1

====
